---- MODULE Spec2Model ----
(***************************************************************************)
(* Calm Loop uploader (src/main.py): the clip-sourcing and assembly        *)
(* pipeline pick_and_download_for_type and its caller main, as a state     *)
(* machine.  One action per step of the sequential program; the outcomes   *)
(* of the external tools (HTTP downloads, ffprobe, ffmpeg, the upload      *)
(* service) are nondeterministic choices.                                  *)
(*                                                                         *)
(* Durations are floats in the program.  Here they are integers counted in *)
(* ticks, Tick ticks to the second, so that int(dur) truncates.            *)
(***************************************************************************)
EXTENDS Integers, Sequences, FiniteSets, TLC

\* ---------------------------------------------------------------- bounds
\* resolution of a duration: ticks per second
Tick == 10
\* TRY_COUNT = getenv_int("TRY_COUNT", 30): the run is modelled with TRY_COUNT=2
TRY_COUNT == 2
\* MAX_DOWNLOAD_CANDIDATES = getenv_int("MAX_CANDIDATES", 30): the run is
\* modelled with MAX_CANDIDATES=13, one more than the cap of the pool
MAX_DOWNLOAD_CANDIDATES == 13

\* ------------------------------------------------------ program constants
SHORT_MAX_S == 600
SHORT_THRESHOLD_SECONDS == 120
LONG_MIN_S == 120
LONG_MAX_S == 1800
VERY_LONG_MIN_S == 3600
AUDIO_MIN_DB == -60
\* main: min_d = 5 for shorts
SHORT_MIN_D == 5
\* main: max_d = 3*60*60 for very_long
VERY_LONG_MAX_D == 10800
\* main: pick_and_download_for_type(..., try_count=6)
PICK_TRY_COUNT == 6
\* if len(downloaded) >= 12: break
POOL_CAP == 12
\* if target < 6: continue
SHORT_FLOOR_S == 6
\* trim_t = min(dur, 180)
SEGMENT_CAP_S == 180
\* upload_to_youtube(..., max_attempts=3)
MAX_UPLOAD_ATTEMPTS == 3

\* the first entries of TOPICS; a topic is only a search parameter
TOPICS == <<"relaxing", "rain">>

\* --------------------------------------------------------------- helpers
Sec(n) == n * Tick
\* int(x) of a non-negative float
IntSec(d) == d \div Tick
Min(a, b) == IF a <= b THEN a ELSE b
Range(s) == {s[k] : k \in 1..Len(s)}

\* audio_mean_volume_db returns None
Absent == 999

\* A media file, by what the probes report of it: ffprobe duration (ticks),
\* has_audio_stream, audio_mean_volume_db, has_long_silence; vert: 1080x1920.
File(d, a, m, s) == [dur |-> d, aud |-> a, mv |-> m, sil |-> s, vert |-> FALSE]
NoFile == [dur |-> -1, aud |-> FALSE, mv |-> Absent, sil |-> TRUE, vert |-> FALSE]

ffprobe_duration_seconds(f) == f.dur
has_audio_stream(f) == f.aud
audio_mean_volume_db(f) == f.mv
has_long_silence(f) == f.sil

audio_ok_AtFloor(f, min_db) ==
    IF ~has_audio_stream(f) THEN FALSE
    ELSE IF audio_mean_volume_db(f) = Absent THEN FALSE
    ELSE audio_mean_volume_db(f) >= min_db
\* audio_ok(path, min_db=AUDIO_MIN_DB)
audio_ok(f, min_db) ==
    IF ~has_audio_stream(f) THEN FALSE
    ELSE IF audio_mean_volume_db(f) = Absent THEN FALSE
    ELSE audio_mean_volume_db(f) > min_db

\* What the probes may report of a file an ffmpeg run has written: audible,
\* audible with a long silence, exactly at the floor, no audio stream.
Probed ==
    { [aud |-> TRUE,  mv |-> -30,          sil |-> FALSE],
      [aud |-> TRUE,  mv |-> -30,          sil |-> TRUE],
      [aud |-> TRUE,  mv |-> AUDIO_MIN_DB, sil |-> FALSE],
      [aud |-> FALSE, mv |-> Absent,       sil |-> TRUE] }
Written(d, p) == File(d, p.aud, p.mv, p.sil)
Vertical(f) == [f EXCEPT !.vert = TRUE]

\* ------------------------------------------------------ the remote catalog
\* What a download of each URL yields.
Remote ==
    [u \in 1..10 |->
       CASE u = 1 -> File(0, FALSE, Absent, TRUE)             \* not a media file
         [] u = 2 -> File(Sec(5) + 5, TRUE, -30, FALSE)       \* 5.5 s
         [] u = 3 -> File(Sec(40) + 7, TRUE, -30, FALSE)      \* 40.7 s
         [] u = 4 -> File(Sec(40), TRUE, -20, FALSE)          \* 40 s
         [] u = 5 -> File(Sec(200) + 3, TRUE, -30, FALSE)     \* 200.3 s
         [] u = 6 -> File(Sec(2000), TRUE, -30, FALSE)        \* 2000 s
         [] u = 7 -> File(Sec(50), FALSE, Absent, TRUE)       \* no audio stream
         [] u = 8 -> File(Sec(45), TRUE, -70, FALSE)          \* below the floor
         [] u = 9 -> File(Sec(200) + 3, TRUE, Absent, TRUE)   \* loudness not measurable
         [] u = 10 -> File(Sec(40), TRUE, -30, FALSE) ]       \* 40 s, quieter than 4

\* search_coverr returns every link of the page: one more than
\* MAX_DOWNLOAD_CANDIDATES, all to the same clip
ManyLinks == [k \in 1..(MAX_DOWNLOAD_CANDIDATES + 1) |-> 7]

\* What the six searchers return in one attempt (pexels, pixabay, coverr,
\* videvo, lifeofvids, internet archive); each returns [] on any error.
SearchResults ==
    { << <<>>, <<>>, <<>>, <<>>, <<>>, <<>> >>,
      << <<1>>, <<>>, <<>>, <<>>, <<>>, <<7>> >>,
      << <<3>>, <<4>>, <<>>, <<>>, <<>>, <<>> >>,
      << <<4>>, <<4, 10>>, <<>>, <<>>, <<>>, <<>> >>,
      << <<>>, <<>>, <<6>>, <<>>, <<>>, <<>> >>,
      << <<>>, <<>>, ManyLinks, <<>>, <<>>, <<>> >>,
      << <<>>, <<>>, <<>>, <<2>>, <<5>>, <<>> >>,
      << <<>>, <<>>, <<>>, <<>>, <<8>>, <<9>> >> }

\* candidates += search_...() for the six searchers
Gather(r) == r[1] \o r[2] \o r[3] \o r[4] \o r[5] \o r[6]

Count(x, s) == Cardinality({k \in 1..Len(s) : s[k] = x})
\* random.shuffle(candidates): any rearrangement
Shuffles(s) ==
    {t \in [1..Len(s) -> Range(s)] : \A x \in Range(s) : Count(x, t) = Count(x, s)}

\* ------------------------------------------------------------- sorting
KeyLess(a, b) == a[1] < b[1] \/ (a[1] = b[1] /\ a[2] < b[2])
\* sorted(): stable, ascending in the key
RECURSIVE SortPairs(_)
SortPairs(ps) ==
    IF ps = <<>> THEN <<>>
    ELSE LET rest == SortPairs(Tail(ps))
             p == Head(ps)
             n == Cardinality({k \in 1..Len(rest) : KeyLess(rest[k][1], p[1])})
         IN SubSeq(rest, 1, n) \o <<p>> \o SubSeq(rest, n + 1, Len(rest))
Items(ps) == [k \in 1..Len(ps) |-> ps[k][2]]
RECURSIVE Filter(_, _)
Filter(s, keep) ==
    IF s = <<>> THEN <<>>
    ELSE (IF Head(s) \in keep THEN <<Head(s)>> ELSE <<>>) \o Filter(Tail(s), keep)

\* sorted(downloaded, key=lambda x: -x[1])
ShortsOrder(pool) == Items(SortPairs([k \in 1..Len(pool) |-> << <<-pool[k].dur, 0>>, pool[k] >>]))
\* t[1] >= target_min_s and t[2] and (t[3] is None or t[3] > AUDIO_MIN_DB)
IsSingle(t, target_min_s) ==
    t.dur >= Sec(target_min_s) /\ t.aud /\ (t.mv = Absent \/ t.mv > AUDIO_MIN_DB)
\* sorted(singles, key=lambda x: (-x[1], -(x[3] if x[3] is not None else -999)))
SinglesOrder(pool, target_min_s) ==
    LET s == Filter(pool, {t \in Range(pool) : IsSingle(t, target_min_s)})
    IN Items(SortPairs([k \in 1..Len(s) |->
           << <<-s[k].dur, -(IF s[k].mv # Absent THEN s[k].mv ELSE -999)>>, s[k] >>]))
IsAcceptable_NoTrack(t) == t.mv = Absent \/ t.mv > AUDIO_MIN_DB
\* t[2] and (t[3] is None or t[3] > AUDIO_MIN_DB)
IsAcceptable(t) == t.aud /\ (t.mv = Absent \/ t.mv > AUDIO_MIN_DB)
Acceptable(pool) == Filter(pool, {t \in Range(pool) : IsAcceptable(t)})
\* sorted(acceptable, key=lambda x: (-x[1], x[3] if x[3] is not None else 0))[0]
Best(acc) ==
    Items(SortPairs([k \in 1..Len(acc) |->
           << <<-acc[k].dur, (IF acc[k].mv # Absent THEN acc[k].mv ELSE 0)>>, acc[k] >>]))[1]

\* ------------------------------------------------------- the directories
\* work/clips and work/out: the files the current attempt has written, by
\* the kind of their name, and Earlier when a file of an earlier attempt is
\* still there.
Earlier == "earlier"
\* the same for main's final_safe / final_vert
EarlierMain == "earlier_main"
MainFiles == {"final_safe", "final_vert", EarlierMain}
\* a file is written
Put(dir, name) == dir \cup {name}
\* path.unlink of a file the current attempt wrote
Unlink(dir, name) == dir \ {name}
\* the same for list.txt, the one file of work/out that is appended to
EarlierList == "earlier_list"
ListFiles == {"list", EarlierList}
\* attempts += 1: what is on disk was written by an earlier attempt
Aged(dir) ==
    {IF f \in MainFiles THEN EarlierMain
     ELSE IF f \in ListFiles THEN EarlierList
     ELSE Earlier : f \in dir}
UnlinkList_Off(dir) == dir
\* if list_txt.exists(): list_txt.unlink()
UnlinkList(dir) == dir \ ListFiles
\* an entry of list.txt that an earlier attempt wrote
StaleSegment == Sec(SEGMENT_CAP_S)

VARIABLES
    pc,            \* position in main / pick_and_download_for_type
    vtype,         \* sys.argv[2]
    target_min_s,  \* min_d
    target_max_s,  \* max_d
    cycles,        \* main: attempts
    attempts,      \* pick_and_download_for_type: attempts
    topic,
    candidates,
    i,             \* index of the acquisition loop
    downloaded,    \* the pool: (clip_path, dur, aud, mv)
    queue,         \* what remains of the shorts / singles iteration
    acceptable,
    total,
    list_txt,      \* the durations of the segments listed in list.txt
    tmp_re,
    combined,
    tmp_final,
    best,          \* the clip of the loop fallback
    loop_out,
    final,         \* what pick_and_download_for_type returned
    clipsDir,      \* work/clips
    outDir,        \* work/out
    final_safe,    \* main: the final re-encode
    upload_path,
    up_attempt,    \* upload_to_youtube: attempt
    accepted,      \* transfers the upload service answered with 200/201
    upload_log,    \* records of uploads_log.csv
    gate_path,     \* audio_ok on its own: the file,
    gate_min_db,   \* the floor,
    gate_ok,       \* and what it returned
    tool           \* the probes on their own: what the tool of each probe does

vars == <<pc, vtype, target_min_s, target_max_s, cycles, attempts, topic, candidates,
          i, downloaded, queue, acceptable, total, list_txt, tmp_re, combined,
          tmp_final, best, loop_out, final, clipsDir, outDir, final_safe, upload_path, up_attempt,
          accepted, upload_log, gate_path, gate_min_db, gate_ok, tool>>

\* the locals of one attempt
locals == <<candidates, i, downloaded, queue, acceptable, total, list_txt, tmp_re,
            combined, tmp_final, best, loop_out>>
mainvars == <<final_safe, upload_path, up_attempt, accepted, upload_log>>
params == <<vtype, target_min_s, target_max_s>>
\* audio_ok called on its own
gate == <<gate_path, gate_min_db, gate_ok, tool>>

\* main: the band of each type; the second band of long and of very_long is
\* one set through LONG_MIN_S / LONG_MAX_S / VERY_LONG_MIN_S in the environment
Bands ==
    { <<"shorts", SHORT_MIN_D, SHORT_MAX_S>>,
      <<"long", LONG_MIN_S, LONG_MAX_S>>,
      <<"long", 50, 60>>,
      <<"very_long", VERY_LONG_MIN_S, VERY_LONG_MAX_D>>,
      <<"very_long", 300, VERY_LONG_MAX_D>> }

ClearLocals ==
    /\ candidates' = <<>>
    /\ i' = 0
    /\ downloaded' = <<>>
    /\ queue' = <<>>
    /\ acceptable' = <<>>
    /\ total' = 0
    /\ list_txt' = <<>>
    /\ tmp_re' = NoFile
    /\ combined' = NoFile
    /\ tmp_final' = NoFile
    /\ best' = NoFile
    /\ loop_out' = NoFile

\* continue: back to the head of the while loop; the locals of the attempt are
\* all assigned again before they are read
Continue == pc' = "while" /\ ClearLocals
\* return f, topic
Return(f) == pc' = "returned" /\ final' = f /\ ClearLocals
\* An exception raised outside any try leaves pick_and_download_for_type, and
\* main, which calls it outside any try: the process ends with a traceback.
Raise == pc' = "crashed" /\ ClearLocals
\* main's locals of one cycle, which the next cycle assigns again
ClearCycle ==
    /\ final' = NoFile
    /\ final_safe' = NoFile
    /\ upload_path' = NoFile
    /\ up_attempt' = 0
\* main: continue
MainContinue == pc' = "main" /\ ClearCycle

\* What the command line of a probe does: its exit status (sh raises on a
\* non-zero one), whether its output holds what the probe looks for (a number,
\* a stream line, mean_volume, silence_start), and the number printed.
Ran(e, m, v) == [exit |-> e, match |-> m, v |-> v]
NoTool == [duration |-> Ran(0, FALSE, 0), audio |-> Ran(0, FALSE, 0),
           loudness |-> Ran(0, FALSE, 0), silence |-> Ran(0, FALSE, 0)]

\* nothing has run yet
Fresh ==
    /\ cycles = 0
    /\ attempts = 0
    /\ topic = "none"
    /\ candidates = <<>>
    /\ i = 0
    /\ downloaded = <<>>
    /\ queue = <<>>
    /\ acceptable = <<>>
    /\ total = 0
    /\ list_txt = <<>>
    /\ tmp_re = NoFile
    /\ combined = NoFile
    /\ tmp_final = NoFile
    /\ best = NoFile
    /\ loop_out = NoFile
    /\ final = NoFile
    /\ clipsDir = {}
    /\ outDir = {}
    /\ final_safe = NoFile
    /\ upload_path = NoFile
    /\ up_attempt = 0
    /\ accepted = 0
    /\ upload_log = 0

Init ==
    /\ pc = "main"
    /\ \E b \in Bands : vtype = b[1] /\ target_min_s = b[2] /\ target_max_s = b[3]
    /\ Fresh
    /\ gate_path = NoFile
    /\ gate_min_db = AUDIO_MIN_DB
    /\ gate_ok = FALSE
    /\ tool = NoTool

\* ------------------------------------------------------------------ main
\* while attempts < TRY_COUNT: attempts += 1; pick_and_download_for_type(...)
MainCycle ==
    /\ pc = "main"
    /\ cycles < TRY_COUNT
    /\ cycles' = cycles + 1
    /\ attempts' = 0
    /\ pc' = "while"
    /\ UNCHANGED <<gate, params, topic, locals, final, clipsDir, outDir, mainvars>>

\* print("Reached TRY_COUNT without success"); sys.exit(1)
MainAbort ==
    /\ pc = "main"
    /\ cycles >= TRY_COUNT
    /\ pc' = "exit1"
    /\ UNCHANGED <<gate, params, cycles, attempts, topic, locals, final, clipsDir, outDir, mainvars>>

\* ------------------------------------------- pick_and_download_for_type
LoopGuard_Off(n, try_count) == n <= try_count
\* while attempts < try_count
LoopGuard(n, try_count) == n < try_count

\* The head of an attempt: topic, the six searches, the shuffle.
AttemptSearch ==
    /\ pc = "while"
    /\ LoopGuard(attempts, PICK_TRY_COUNT)
    /\ attempts' = attempts + 1
    /\ \E t \in Range(TOPICS) : topic' = t
    /\ clipsDir' = Aged(clipsDir)
    /\ outDir' = Aged(outDir)
    /\ \E r \in SearchResults : \E c \in Shuffles(Gather(r)) :
          IF c = <<>>
          THEN \* print("No candidates, retrying..."); continue
               Continue
          ELSE /\ candidates' = c
               /\ pc' = "download"
               /\ UNCHANGED <<i, downloaded, queue, acceptable, total, list_txt, tmp_re,
                              combined, tmp_final,
                   best, loop_out>>
    /\ UNCHANGED <<gate, params, cycles, final, mainvars>>

\* return None, None
PickGiveUp ==
    /\ pc = "while"
    /\ ~LoopGuard(attempts, PICK_TRY_COUNT)
    /\ Return(NoFile)
    /\ UNCHANGED <<gate, params, cycles, attempts, topic, clipsDir, outDir, mainvars>>

Viable_Off(dur) == ~(dur < 0)
\* if dur <= 0: unlink, continue
Viable(dur) == ~(dur <= 0)

\* for i, url in enumerate(candidates[:MAX_DOWNLOAD_CANDIDATES])
Limit == Min(Len(candidates), MAX_DOWNLOAD_CANDIDATES)

PoolFull_Off(n) == n > POOL_CAP
\* if len(downloaded) >= 12: break
PoolFull(n) == n >= POOL_CAP

\* One iteration of the acquisition loop.
Download ==
    /\ pc = "download"
    /\ i < Limit
    /\ i' = i + 1
    /\ LET f == Remote[candidates[i + 1]]
           clip == [dur |-> ffprobe_duration_seconds(f),
                    aud |-> has_audio_stream(f),
                    mv |-> IF has_audio_stream(f) THEN audio_mean_volume_db(f) ELSE Absent,
                    sil |-> has_long_silence(f)]
       IN \/ \* requests.get raises: nothing is written
             /\ clipsDir' = clipsDir
             /\ downloaded' = downloaded
          \/ \* the stream breaks: a partial file stays
             /\ clipsDir' = Put(clipsDir, "clip")
             /\ downloaded' = downloaded
          \/ \* the download succeeds; a clip that is not viable is unlinked
             /\ IF Viable(clip.dur)
                THEN /\ clipsDir' = Put(clipsDir, "clip")
                     /\ downloaded' = Append(downloaded, clip)
                ELSE /\ clipsDir' = clipsDir
                     /\ downloaded' = downloaded
    /\ pc' = IF PoolFull(Len(downloaded')) \/ i + 1 >= Limit THEN "acquired" ELSE "download"
    /\ UNCHANGED <<gate, params, cycles, attempts, topic, candidates, queue, acceptable, total,
                   list_txt, tmp_re, combined, tmp_final, final, outDir, mainvars,
                   best, loop_out>>

\* After the acquisition loop: the pool is empty, or the branch of the type.
\* candidates and i are not read after the loop.
Acquired ==
    /\ pc = "acquired"
    /\ IF downloaded = <<>>
       THEN \* print("No downloaded clips, retrying."); continue
            Continue
       ELSE /\ CASE vtype = "shorts" -> pc' = "shorts" /\ queue' = ShortsOrder(downloaded)
                 [] vtype = "long" ->
                        pc' = "single" /\ queue' = SinglesOrder(downloaded, target_min_s)
                 [] OTHER -> pc' = "acceptable" /\ queue' = queue
            /\ candidates' = <<>>
            /\ i' = 0
            /\ UNCHANGED <<downloaded, acceptable, total, list_txt, tmp_re, combined,
                           tmp_final, best, loop_out>>
    /\ UNCHANGED <<gate, params, cycles, attempts, topic, final, clipsDir, outDir, mainvars>>

\* ---- shorts
\* if not aud: continue / if mv is None or mv <= AUDIO_MIN_DB: continue /
\* target = min(int(dur), SHORT_MAX_S); if target < 6: continue
ShortTarget(t) == Min(IntSec(t.dur), SHORT_MAX_S)
ShortEligible_NoFloor(t) ==
    /\ t.aud
    /\ ~(t.mv = Absent \/ t.mv <= AUDIO_MIN_DB)
ShortEligible(t) ==
    /\ t.aud
    /\ ~(t.mv = Absent \/ t.mv <= AUDIO_MIN_DB)
    /\ ~(ShortTarget(t) < SHORT_FLOOR_S)

\* if ffprobe_duration_seconds(tmp_re) <= SHORT_THRESHOLD_SECONDS
TrueShort(f) == ffprobe_duration_seconds(f) <= Sec(SHORT_THRESHOLD_SECONDS)

\* the next iteration of a for loop over queue
NextOf(here) ==
    /\ pc' = here
    /\ queue' = Tail(queue)
    /\ UNCHANGED <<candidates, i, downloaded, acceptable, total, list_txt, tmp_re,
                   combined, tmp_final,
                   best, loop_out>>

\* One iteration of the shorts loop over the pool in descending duration, up
\* to the re-encode.
ShortsCandidate ==
    /\ pc = "shorts"
    /\ queue # <<>>
    /\ LET t == Head(queue) IN
       \/ \* the clip is skipped
          /\ ~ShortEligible(t)
          /\ NextOf("shorts") /\ outDir' = outDir
       \/ \* both trims raise
          /\ ShortEligible(t)
          /\ NextOf("shorts") /\ outDir' = outDir
       \/ \* the re-encode fails: tmp.unlink
          /\ ShortEligible(t)
          /\ NextOf("shorts") /\ outDir' = outDir
       \/ \* trimmed and re-encoded
          /\ ShortEligible(t)
          /\ \E p \in Probed : tmp_re' = Written(Sec(ShortTarget(t)), p)
          /\ outDir' = Put(Put(outDir, "short_trim"), "short_re")
          /\ pc' = "shorts_gate"
          /\ queue' = Tail(queue)
          /\ UNCHANGED <<candidates, i, downloaded, acceptable, total, list_txt,
                         combined, tmp_final, best, loop_out>>
    /\ UNCHANGED <<gate, params, cycles, attempts, topic, final, clipsDir, mainvars>>

\* if not audio_ok(tmp_re): tmp_re.unlink; continue / the vertical conversion
\* of a true short / return
ShortsGate ==
    /\ pc = "shorts_gate"
    /\ IF ~audio_ok(tmp_re, AUDIO_MIN_DB)
       THEN /\ outDir' = Unlink(outDir, "short_re")
            /\ tmp_re' = NoFile
            /\ pc' = "shorts"
            /\ UNCHANGED <<candidates, i, downloaded, queue, acceptable, total, list_txt,
                           combined, tmp_final, best, loop_out, final>>
       ELSE IF TrueShort(tmp_re)
            THEN \/ \* make_vertical_1080x1920 succeeds
                    \E q \in Probed :
                       /\ Return(Vertical(Written(tmp_re.dur, q)))
                       /\ outDir' = Put(outDir, "short_vert")
                 \/ \* it fails
                    /\ Return(tmp_re)
                    /\ outDir' = outDir
            ELSE /\ Return(tmp_re)
                 /\ outDir' = outDir
    /\ UNCHANGED <<gate, params, cycles, attempts, topic, clipsDir, mainvars>>

\* print("No suitable short found this attempt"); both directories are emptied
ShortsExhausted ==
    /\ pc = "shorts"
    /\ queue = <<>>
    /\ clipsDir' = {}
    /\ outDir' = {}
    /\ Continue
    /\ UNCHANGED <<gate, params, cycles, attempts, topic, final, mainvars>>

\* ---- long: a single clip
\* One iteration of the loop over singles, up to the re-encode.
SingleCandidate ==
    /\ pc = "single"
    /\ queue # <<>>
    /\ LET t == Head(queue) IN
       \/ \* print("Rejected due to long silence.")
          /\ has_long_silence(t)
          /\ NextOf("single") /\ outDir' = outDir
       \/ \* normalize_and_reencode returns False
          /\ ~has_long_silence(t)
          /\ NextOf("single") /\ outDir' = outDir
       \/ \* it returns True
          /\ ~has_long_silence(t)
          /\ \E p \in Probed : tmp_re' = Written(t.dur, p)
          /\ outDir' = Put(outDir, "long_single_re")
          /\ pc' = "single_gate"
          /\ queue' = Tail(queue)
          /\ UNCHANGED <<candidates, i, downloaded, acceptable, total, list_txt,
                         combined, tmp_final,
                   best, loop_out>>
    /\ UNCHANGED <<gate, params, cycles, attempts, topic, final, clipsDir, mainvars>>

\* if audio_ok(tmp_re) and not has_long_silence(tmp_re): trim to the maximum, return
SingleGate ==
    /\ pc = "single_gate"
    /\ IF audio_ok(tmp_re, AUDIO_MIN_DB) /\ ~has_long_silence(tmp_re)
       THEN IF ffprobe_duration_seconds(tmp_re) > Sec(target_max_s)
            THEN \/ \* the trim succeeds
                    /\ \E p \in Probed : Return(Written(Sec(target_max_s), p))
                    /\ outDir' = Put(outDir, "long_single_trim")
                 \/ \* sh raises outside any try
                    /\ Raise
                    /\ UNCHANGED <<final, outDir>>
            ELSE /\ Return(tmp_re)
                 /\ outDir' = outDir
       ELSE \* tmp_re.unlink; continue
            /\ outDir' = Unlink(outDir, "long_single_re")
            /\ tmp_re' = NoFile
            /\ pc' = "single"
            /\ UNCHANGED <<candidates, i, downloaded, queue, acceptable, total, list_txt,
                           combined, tmp_final, final,
                   best, loop_out>>
    /\ UNCHANGED <<gate, params, cycles, attempts, topic, clipsDir, mainvars>>

\* print("No suitable single long clip found")
SingleExhausted ==
    /\ pc = "single"
    /\ queue = <<>>
    /\ pc' = "acceptable"
    /\ UNCHANGED <<gate, params, cycles, attempts, topic, locals, final, clipsDir, outDir, mainvars>>

\* ---- concatenation
\* acceptable = [...]; if not acceptable: the clips are removed, retry;
\* list.txt is removed if it exists.  downloaded is not read after this.
AcceptableStage ==
    /\ pc = "acceptable"
    /\ LET acc == Acceptable(downloaded) IN
       IF acc = <<>>
       THEN /\ clipsDir' = {}
            /\ outDir' = outDir
            /\ Continue
       ELSE /\ acceptable' = acc
            /\ queue' = acc
            /\ total' = 0
            /\ list_txt' = <<>>
            /\ downloaded' = <<>>
            /\ outDir' = UnlinkList(outDir)
            /\ pc' = "accum"
            /\ UNCHANGED <<clipsDir, candidates, i, tmp_re, combined, tmp_final, best,
                           loop_out>>
    /\ UNCHANGED <<gate, params, cycles, attempts, topic, final, mainvars>>

\* trim_t = min(dur, 180); ffmpeg -t int(trim_t)
TrimSeconds(t) == IntSec(Min(t.dur, Sec(SEGMENT_CAP_S)))

Reached_Off(n, target) == n > target
\* if total >= target_min_s
Reached(n, target) == n >= target

\* One iteration of the accumulation loop over acceptable, in pool order.
Accumulate ==
    /\ pc = "accum"
    /\ queue # <<>>
    /\ queue' = Tail(queue)
    /\ LET t == Head(queue) IN
       \/ \* print("Trim error:"); continue
          /\ UNCHANGED <<total, list_txt, outDir>>
          /\ pc' = IF Tail(queue) = <<>> THEN "collected" ELSE "accum"
       \/ \* the segment is written and listed
          /\ total' = total + TrimSeconds(t)
          /\ list_txt' = Append(list_txt, Sec(TrimSeconds(t)))
          /\ outDir' = Put(Put(outDir, "trim"), "list")
          /\ pc' = IF Reached(total', target_min_s) \/ Tail(queue) = <<>>
                   THEN "collected" ELSE "accum"
    /\ UNCHANGED <<gate, params, cycles, attempts, topic, candidates, i, downloaded, acceptable,
                   tmp_re, combined, tmp_final, final, clipsDir, mainvars,
                   best, loop_out>>

RECURSIVE Sum(_)
Sum(s) == IF s = <<>> THEN 0 ELSE Head(s) + Sum(Tail(s))

\* what ffmpeg -f concat reads: list.txt is opened for appending (line 434),
\* so the entries of an earlier attempt, if the file is still there, come first
Listed == (IF EarlierList \in outDir THEN <<StaleSegment>> ELSE <<>>) \o list_txt

\* print("Total collected duration"); concat_and_reencode, or the loop fallback.
\* Of the locals of the accumulation, only acceptable is read after it, by the
\* loop fallback.
Collected ==
    /\ pc = "collected"
    /\ IF Reached(total, target_min_s)
       THEN \/ \* the concat raises: concat_and_reencode returns False; continue
               /\ Continue
               /\ outDir' = outDir
            \/ \* the re-encode of tmp_concat.mp4 fails: the same
               /\ Continue
               /\ outDir' = Put(outDir, "tmp_concat")
            \/ \* combined is written
               /\ \E p \in Probed : combined' = Written(Sum(Listed), p)
               /\ outDir' = Put(Put(outDir, "tmp_concat"), "combined")
               /\ pc' = "concat_gate"
               /\ queue' = <<>> /\ acceptable' = <<>> /\ total' = 0 /\ list_txt' = <<>>
               /\ UNCHANGED <<candidates, i, downloaded, tmp_re, tmp_final, best, loop_out>>
       ELSE /\ pc' = "loop"
            /\ queue' = <<>> /\ total' = 0 /\ list_txt' = <<>>
            /\ UNCHANGED <<candidates, i, downloaded, acceptable, tmp_re, combined,
                           tmp_final, best, loop_out, outDir>>
    /\ UNCHANGED <<gate, params, cycles, attempts, topic, final, clipsDir, mainvars>>

\* if not audio_ok(combined): ... / return combined, topic
ConcatGate ==
    /\ pc = "concat_gate"
    /\ IF audio_ok(combined, AUDIO_MIN_DB)
       THEN Return(combined)
       ELSE pc' = "birds" /\ UNCHANGED <<locals, final>>
    /\ UNCHANGED <<gate, params, cycles, attempts, topic, clipsDir, outDir, mainvars>>

\* if overlay_birds_if_needed(combined, birds_out) and audio_ok(birds_out): return
Birds ==
    /\ pc = "birds"
    /\ \/ \* the download of the birds track raises: overlay returns False
          /\ pc' = "bg" /\ UNCHANGED <<locals, final, outDir>>
       \/ \* ffmpeg raises: the same
          /\ pc' = "bg" /\ UNCHANGED <<locals, final>>
          /\ outDir' = Put(outDir, "birds_tmp")
       \/ \* birds_out is written
          \E p \in Probed :
             LET birds_out == Written(combined.dur, p) IN
             /\ outDir' = Put(Put(outDir, "birds_tmp"), "birds")
             /\ IF audio_ok(birds_out, AUDIO_MIN_DB)
                THEN Return(birds_out)
                ELSE pc' = "bg" /\ UNCHANGED <<locals, final>>
    /\ UNCHANGED <<gate, params, cycles, attempts, topic, clipsDir, mainvars>>

\* download_url_to(bg, MIXKIT_FALLBACK); sh(ffmpeg ... tmp_final): neither is in a try
BgFallback ==
    /\ pc = "bg"
    /\ \/ \* the download raises
          /\ Raise /\ outDir' = outDir
       \/ \* ffmpeg raises
          /\ Raise /\ outDir' = Put(outDir, "bg")
       \/ \* tmp_final is written
          /\ \E p \in Probed : tmp_final' = Written(combined.dur, p)
          /\ outDir' = Put(Put(outDir, "bg"), "final_with_bg")
          /\ pc' = "bg_gate"
          /\ UNCHANGED <<candidates, i, downloaded, queue, acceptable, total, list_txt,
                         tmp_re, combined,
                   best, loop_out>>
    /\ UNCHANGED <<gate, params, cycles, attempts, topic, final, clipsDir, mainvars>>

\* if audio_ok(tmp_final): return; else print("Fallback bg audio insufficient"); continue
BgGate ==
    /\ pc = "bg_gate"
    /\ IF audio_ok(tmp_final, AUDIO_MIN_DB)
       THEN Return(tmp_final)
       ELSE Continue /\ final' = final
    /\ UNCHANGED <<gate, params, cycles, attempts, topic, clipsDir, outDir, mainvars>>

\* ---- loop fallback
LoopLength_Src(src, target_seconds) == IF src.dur > Sec(target_seconds) THEN src.dur ELSE Sec(target_seconds)
\* loop_to_target: ffmpeg -stream_loop -1 -i src -t int(target_seconds)
LoopLength(src, target_seconds) == Sec(target_seconds)

\* best = sorted(acceptable, ...)[0]; loop_to_target(best_clip, target_min_s, loop_out);
\* acceptable is not read after this
LoopFallback ==
    /\ pc = "loop"
    /\ Len(acceptable) > 0
    /\ \/ \* loop_to_target returns False: both directories are emptied
          /\ Continue
          /\ clipsDir' = {} /\ outDir' = {}
       \/ \* loop_out is written
          /\ best' = Best(acceptable)
          /\ \E p \in Probed : loop_out' = Written(LoopLength(Best(acceptable), target_min_s), p)
          /\ outDir' = Put(outDir, "looped")
          /\ pc' = "loop_gate"
          /\ acceptable' = <<>>
          /\ UNCHANGED <<candidates, i, downloaded, queue, total, list_txt,
                         tmp_re, combined, tmp_final, clipsDir>>
    /\ UNCHANGED <<gate, params, cycles, attempts, topic, final, mainvars>>

\* ... and audio_ok(loop_out): return; else both directories are emptied
LoopGate ==
    /\ pc = "loop_gate"
    /\ IF audio_ok(loop_out, AUDIO_MIN_DB)
       THEN /\ Return(loop_out)
            /\ UNCHANGED <<clipsDir, outDir>>
       ELSE /\ Continue /\ final' = final
            /\ clipsDir' = {} /\ outDir' = {}
    /\ UNCHANGED <<gate, params, cycles, attempts, topic, mainvars>>

\* ------------------------------------------------------------ main, cont.
\* if not final: print("[main] producer failed, trying again"); continue
MainProducerFailed ==
    /\ pc = "returned"
    /\ final = NoFile
    /\ MainContinue
    /\ UNCHANGED <<gate, params, cycles, attempts, topic, locals, clipsDir, outDir, accepted,
                   upload_log>>

FinalOk_TrackOnly(f) == has_audio_stream(f)
\* if not audio_ok(final_safe)
FinalOk(f) == audio_ok(f, AUDIO_MIN_DB)

\* The final re-encode, the gate on it, the vertical conversion of a short.
MainFinalize ==
    /\ pc = "returned"
    /\ final # NoFile
    /\ \/ \* normalize_and_reencode fails: continue
          /\ MainContinue /\ outDir' = outDir
       \/ \E p \in Probed :
             LET safe == [Written(final.dur, p) EXCEPT !.vert = final.vert] IN
             IF ~FinalOk(safe)
             THEN \* final_safe.unlink; continue
                  /\ MainContinue /\ outDir' = outDir
             ELSE /\ pc' = "upload"
                  /\ final' = NoFile
                  /\ final_safe' = safe
                  /\ up_attempt' = 0
                  /\ IF vtype = "shorts" /\ TrueShort(safe)
                     THEN \/ \* make_vertical_1080x1920 succeeds
                             \E q \in Probed :
                                /\ upload_path' = Vertical(Written(safe.dur, q))
                                /\ outDir' = Put(Put(outDir, "final_safe"), "final_vert")
                          \/ \* it fails: upload as normal short
                             /\ upload_path' = safe
                             /\ outDir' = Put(outDir, "final_safe")
                     ELSE /\ upload_path' = safe
                          /\ outDir' = Put(outDir, "final_safe")
    /\ UNCHANGED <<gate, params, cycles, attempts, topic, locals, clipsDir, accepted, upload_log>>

\* upload_to_youtube: one attempt that raises (token, session, or the transfer
\* is answered with another status than 200/201); after the last, main's except
UploadRaises ==
    /\ pc = "upload"
    /\ up_attempt < MAX_UPLOAD_ATTEMPTS
    /\ IF up_attempt + 1 >= MAX_UPLOAD_ATTEMPTS
       THEN MainContinue
       ELSE /\ pc' = "upload"
            /\ up_attempt' = up_attempt + 1
            /\ UNCHANGED <<final, final_safe, upload_path>>
    /\ UNCHANGED <<gate, params, cycles, attempts, topic, locals, clipsDir, outDir, accepted,
                   upload_log>>

\* upload_to_youtube: the transfer is answered with 200/201; the id of the
\* answer, or None; main appends to the log and returns, or retries the cycle
UploadAccepted ==
    /\ pc = "upload"
    /\ up_attempt < MAX_UPLOAD_ATTEMPTS
    /\ accepted' = accepted + 1
    /\ \/ \* vid: the record is appended; return
          /\ upload_log' = upload_log + 1
          /\ pc' = "done"
          /\ ClearCycle
       \/ \* print("[main] upload returned no id, retrying full cycle")
          /\ upload_log' = upload_log
          /\ MainContinue
    /\ UNCHANGED <<gate, params, cycles, attempts, topic, locals, clipsDir, outDir>>

Next ==
    \/ MainCycle
    \/ MainAbort
    \/ AttemptSearch
    \/ PickGiveUp
    \/ Download
    \/ Acquired
    \/ ShortsCandidate
    \/ ShortsGate
    \/ ShortsExhausted
    \/ SingleCandidate
    \/ SingleGate
    \/ SingleExhausted
    \/ AcceptableStage
    \/ Accumulate
    \/ Collected
    \/ ConcatGate
    \/ Birds
    \/ BgFallback
    \/ BgGate
    \/ LoopFallback
    \/ LoopGate
    \/ MainProducerFailed
    \/ MainFinalize
    \/ UploadRaises
    \/ UploadAccepted

Spec == Init /\ [][Next]_vars

\* ------------------------------------------------------- audio_ok alone
\* the files audio_ok is called on, by what its two probes report of them
GateFiles ==
    { File(Sec(40), a, m, FALSE) :
        a \in BOOLEAN, m \in {-70, AUDIO_MIN_DB - 1, AUDIO_MIN_DB, AUDIO_MIN_DB + 1, -30, Absent} }
\* min_db
Floors == {-70, AUDIO_MIN_DB - 1, AUDIO_MIN_DB, AUDIO_MIN_DB + 1, -50}

GateInit ==
    /\ pc = "audio_ok"
    /\ vtype = "long" /\ target_min_s = LONG_MIN_S /\ target_max_s = LONG_MAX_S
    /\ Fresh
    /\ gate_path \in GateFiles
    /\ gate_min_db \in Floors
    /\ gate_ok = FALSE
    /\ tool = NoTool

\* audio_ok(path, min_db)
GateCall ==
    /\ pc = "audio_ok"
    /\ pc' = "gated"
    /\ gate_ok' = audio_ok(gate_path, gate_min_db)
    /\ UNCHANGED <<gate_path, gate_min_db, tool>>
    /\ UNCHANGED <<params, cycles, attempts, topic, locals, final, clipsDir, outDir>>
    /\ UNCHANGED <<final_safe, upload_path, up_attempt, accepted, upload_log>>

\* audio_ok of the same file with a lower floor
GateLower ==
    /\ pc = "gated"
    /\ \E f \in Floors :
          /\ f < gate_min_db
          /\ gate_min_db' = f
          /\ gate_ok' = audio_ok(gate_path, f)
    /\ UNCHANGED <<pc, gate_path, tool>>
    /\ UNCHANGED <<params, cycles, attempts, topic, locals, final, clipsDir, outDir>>
    /\ UNCHANGED <<final_safe, upload_path, up_attempt, accepted, upload_log>>

GateNext ==
    \/ GateCall
    \/ GateLower

GateSpec == GateInit /\ [][GateNext]_vars

\* ------------------------------------------------------ the probes alone
\* ffprobe_duration_seconds: float(out.strip()), 0.0 on any exception
ProbeDuration(out) == IF out.exit # 0 \/ ~out.match THEN 0 ELSE out.v
\* has_audio_stream: bool(out.strip()), False on any exception
ProbeAudio(out) == IF out.exit # 0 THEN FALSE ELSE out.match
\* audio_mean_volume_db: the number after mean_volume:, None without it or on
\* any exception
ProbeLoudness(out) == IF out.exit # 0 \/ ~out.match THEN Absent ELSE out.v
ProbeSilence_Off(out) == IF out.exit # 0 THEN FALSE ELSE out.match
\* has_long_silence: "silence_start" in out, True on any exception
ProbeSilence(out) == IF out.exit # 0 THEN TRUE ELSE out.match

\* the tool fails, prints nothing of use, or prints a value
DurationRuns == {Ran(1, FALSE, 0), Ran(0, FALSE, 0)} \cup {Ran(0, TRUE, d) : d \in {0, Sec(55) + 5, Sec(400)}}
AudioRuns == {Ran(1, FALSE, 0), Ran(0, FALSE, 0), Ran(0, TRUE, 0)}
LoudnessRuns == {Ran(1, FALSE, 0), Ran(0, FALSE, 0)} \cup {Ran(0, TRUE, m) : m \in {-70, AUDIO_MIN_DB, -30}}
SilenceRuns == {Ran(1, FALSE, 0), Ran(0, FALSE, 0), Ran(0, TRUE, 0)}

ProbeInit ==
    /\ pc = "probe"
    /\ vtype = "long" /\ target_min_s = LONG_MIN_S /\ target_max_s = LONG_MAX_S
    /\ Fresh
    /\ tool \in [duration : DurationRuns, audio : AudioRuns, loudness : LoudnessRuns,
                 silence : SilenceRuns]
    /\ gate_path = NoFile
    /\ gate_min_db = AUDIO_MIN_DB
    /\ gate_ok = FALSE

\* the four probes of one file
ProbeFile ==
    /\ pc = "probe"
    /\ pc' = "probed"
    /\ gate_path' = File(ProbeDuration(tool.duration), ProbeAudio(tool.audio),
                         ProbeLoudness(tool.loudness), ProbeSilence(tool.silence))
    /\ UNCHANGED <<gate_min_db, gate_ok, tool>>
    /\ UNCHANGED <<params, cycles, attempts, topic, locals, final, clipsDir, outDir>>
    /\ UNCHANGED <<final_safe, upload_path, up_attempt, accepted, upload_log>>

\* audio_ok of the probed file
ProbeGate ==
    /\ pc = "probed"
    /\ pc' = "screened"
    /\ gate_ok' = audio_ok(gate_path, gate_min_db)
    /\ UNCHANGED <<gate_path, gate_min_db, tool>>
    /\ UNCHANGED <<params, cycles, attempts, topic, locals, final, clipsDir, outDir>>
    /\ UNCHANGED <<final_safe, upload_path, up_attempt, accepted, upload_log>>

ProbeNext ==
    \/ ProbeFile
    \/ ProbeGate

ProbeSpec == ProbeInit /\ [][ProbeNext]_vars

\* ================================================================ claims
InBand(f) == Sec(target_min_s) <= f.dur /\ f.dur <= Sec(target_max_s)
NoAudioPool == downloaded # <<>> /\ \A k \in 1..Len(downloaded) : ~downloaded[k].aud

\* C1: whenever pick_and_download_for_type returns a file, that file has an
\* audio track and a measured mean loudness strictly above AUDIO_MIN_DB.
C1_ReturnedPassesGate ==
    pc = "returned" /\ final # NoFile => audio_ok(final, AUDIO_MIN_DB)

\* C2: for long and very_long, a file returned by the single-clip branch, the
\* concatenation or the fallback audio overlay has a duration within
\* [target_min_s, target_max_s].
C2_ReturnedWithinBand ==
    [][ (pc \in {"single_gate", "concat_gate", "birds", "bg_gate"} /\ pc' = "returned")
        => InBand(final') ]_vars

C4_NoFailureEndsRun == pc # "crashed"

\* C5: at the start of every attempt the clips directory and the output
\* directory hold no file written by an earlier attempt.
C5_AttemptStartsClean ==
    pc = "download" /\ i = 0 => clipsDir = {} /\ outDir \cap {Earlier, EarlierList} = {}

\* C6: for long and very_long the concatenation is entered only after the
\* single-clip branch found nothing; the overlay only after the gate on the
\* concatenation; the loop only when nothing was concatenated.
C6_StatesInOrder ==
    [][ /\ (pc # "acceptable" /\ pc' = "acceptable" => pc = "single" /\ queue = <<>>)
        /\ (pc # "birds" /\ pc' = "birds" => pc = "concat_gate")
        /\ (pc # "loop" /\ pc' = "loop" => pc = "collected") ]_vars

\* C7: when the concatenation fails the gate and the fallback audio does not
\* make it pass, the loop extension is tried next in the same attempt.
C7_LoopAfterOverlayFails ==
    [][ (pc = "bg_gate" /\ ~audio_ok(tmp_final, AUDIO_MIN_DB)) => pc' = "loop" ]_vars

\* C8: a re-encoded single clip that fails the audio gate gets the fallback
\* audio mixed in and is checked again, instead of being discarded.
C8_OverlayAfterSingleGateFails ==
    [][ (pc = "single_gate" /\ ~audio_ok(tmp_re, AUDIO_MIN_DB)) => pc' \in {"birds", "bg"} ]_vars

\* C9: when no clip of the pool has an audio track, no branch selects a clip:
\* nothing is trimmed, re-encoded, listed or returned, and the attempt ends at
\* the loop head.
C9_NoAudioNoSelection ==
    [][ (pc \in {"acquired", "shorts", "single", "acceptable"} /\ NoAudioPool)
        => /\ pc' \in {"shorts", "single", "acceptable", "while"}
           /\ final' = NoFile
           /\ tmp_re' = NoFile
           /\ list_txt' = <<>>
           /\ (pc' = "single" => queue' = <<>>) ]_vars
C9_Witness == pc = "acceptable" /\ vtype = "long" /\ NoAudioPool

\* C10: every clip of the pool has a probed duration strictly greater than 0.
C10_PoolDurationsPositive ==
    \A k \in 1..Len(downloaded) : downloaded[k].dur > 0
C10_Witness ==
    /\ pc = "acquired" /\ i = Len(candidates) /\ downloaded # <<>>
    /\ \E k \in 1..Len(candidates) : Remote[candidates[k]].dur <= 0

\* ---------------------------------------------------------------- C11..C20
RECURSIVE IsSubSeq(_, _)
\* s is t with some entries left out
IsSubSeq(s, t) ==
    IF s = <<>> THEN TRUE
    ELSE IF t = <<>> THEN FALSE
    ELSE IF Head(s) = Head(t) THEN IsSubSeq(Tail(s), Tail(t))
    ELSE IsSubSeq(s, Tail(t))
\* the clips of acceptable the accumulation loop has been through
Consumed == SubSeq(acceptable, 1, Len(acceptable) - Len(queue))
TrimmedOf(s) == [k \in 1..Len(s) |-> Sec(TrimSeconds(s[k]))]
Descending(s) == \A j, k \in 1..Len(s) : j < k => s[j].dur >= s[k].dur
IsSuffix(s, t) == Len(s) <= Len(t) /\ s = SubSeq(t, Len(t) - Len(s) + 1, Len(t))
Assembly ==
    {"single", "single_gate", "acceptable", "accum", "collected", "concat_gate",
     "birds", "bg", "bg_gate", "loop", "loop_gate"}

\* C11: the concatenation never yields a file shorter than target_min_s: the
\* segments are listed in pool order and counted until the total reaches
\* target_min_s; a total equal to target_min_s is enough; a segment whose trim
\* failed adds nothing; a total below target_min_s concatenates nothing.
C11_ConcatReachesMin ==
    /\ [](pc \in {"accum", "collected"}
            => /\ Sum(list_txt) = Sec(total)
               /\ IsSubSeq(list_txt, TrimmedOf(Consumed)))
    /\ [](pc = "accum" => total < target_min_s)
    /\ [](pc \in {"concat_gate", "birds", "bg", "bg_gate"}
            => combined.dur >= Sec(target_min_s))
    /\ [][ /\ (pc = "accum" /\ list_txt' = list_txt => total' = total)
           /\ (pc = "collected" /\ total < target_min_s
                 => pc' = "loop" /\ combined' = NoFile /\ outDir' = outDir)
           /\ (pc = "collected" /\ total >= target_min_s => pc' \in {"concat_gate", "while"})
           /\ (pc = "collected" /\ pc' = "concat_gate" => combined'.dur = Sum(list_txt))
           /\ (pc \in {"concat_gate", "birds", "bg_gate"} /\ pc' = "returned"
                 => final'.dur >= Sec(target_min_s)) ]_vars
C11_Witness ==
    /\ pc = "concat_gate" /\ vtype = "long" /\ target_min_s = LONG_MIN_S
    /\ combined.dur = Sec(target_min_s)

\* C12: the file the loop fallback returns lasts exactly target_min_s whole
\* seconds, whether the looped clip is shorter or longer than that, and it is
\* returned only after it passed the audio gate.
C12_LoopEqualsMin ==
    [][ /\ (pc = "loop" /\ pc' = "loop_gate" => loop_out'.dur = Sec(target_min_s))
        /\ (pc = "loop_gate" /\ pc' = "returned"
              => /\ final' = loop_out
                 /\ final'.dur = Sec(target_min_s)
                 /\ audio_ok(final', AUDIO_MIN_DB))
        /\ (pc = "loop" => pc' # "returned") ]_vars
C12_Witness ==
    /\ pc = "loop_gate" /\ audio_ok(loop_out, AUDIO_MIN_DB)
    /\ best.dur > Sec(target_min_s)

\* C13: the candidates the acquisition loop iterates hold no URL twice, and
\* at most MAX_DOWNLOAD_CANDIDATES of them.
C13_CandidatesDistinct ==
    pc = "download"
      => /\ Limit <= MAX_DOWNLOAD_CANDIDATES
         /\ \A j, k \in 1..Limit : j # k => candidates[j] # candidates[k]

C15_GateMonotonic ==
    /\ [](pc = "gated"
            => (gate_ok <=> /\ gate_path.aud
                            /\ gate_path.mv # Absent
                            /\ gate_path.mv > gate_min_db))
    /\ [][ (pc = "gated" /\ gate_ok /\ gate_min_db' < gate_min_db) => gate_ok' ]_vars
C15_Witness ==
    /\ pc = "gated" /\ gate_path.aud /\ gate_path.mv = AUDIO_MIN_DB
    /\ gate_min_db = AUDIO_MIN_DB - 1 /\ gate_ok

\* C16: the single-clip branch re-encodes only clips whose duration lies
\* within [target_min_s, target_max_s].
C16_SinglesWithinBand ==
    [][ (pc = "single" /\ pc' = "single_gate") => InBand(Head(queue)) ]_vars

\* C17: every clip the accumulation trims into a segment, and the clip the
\* loop fallback loops, has an audio stream and a measured mean loudness
\* strictly above AUDIO_MIN_DB.
C17_UsedClipsGated ==
    [][ /\ (pc = "accum" /\ list_txt' # list_txt => audio_ok(Head(queue), AUDIO_MIN_DB))
        /\ (pc = "loop" /\ pc' = "loop_gate" => audio_ok(best', AUDIO_MIN_DB)) ]_vars

\* C18: the clip the loop fallback loops is the longest of the acceptable
\* clips and, among those of that duration, the loudest.
C18_BestIsLongestLoudest ==
    [][ (pc = "loop" /\ pc' = "loop_gate")
        => \A k \in 1..Len(acceptable) :
              /\ acceptable[k].dur <= best'.dur
              /\ (acceptable[k].dur = best'.dur /\ acceptable[k].mv # Absent
                     /\ best'.mv # Absent
                    => acceptable[k].mv <= best'.mv) ]_vars

\* C19: for shorts the returned file comes from one clip of the pool, taken
\* in descending duration: a clip with an audio stream, a measured loudness
\* above the floor and at least 6 whole seconds, trimmed to at most
\* SHORT_MAX_S seconds, whose re-encode passed the gate; its duration is
\* between 6 and SHORT_MAX_S seconds; shorts never enter the single-clip
\* branch, the concatenation, the overlay or the loop.
C19_ShortsFromOneClip ==
    /\ [](vtype = "shorts" => pc \notin Assembly)
    /\ [](pc \in {"shorts", "shorts_gate"}
            => /\ Descending(ShortsOrder(downloaded))
               /\ IsSuffix(queue, ShortsOrder(downloaded)))
    /\ [](pc = "shorts_gate"
            => Sec(SHORT_FLOOR_S) <= tmp_re.dur /\ tmp_re.dur <= Sec(SHORT_MAX_S))
    /\ [][ /\ (pc = "shorts" /\ pc' = "shorts_gate"
                 => /\ audio_ok(Head(queue), AUDIO_MIN_DB)
                    /\ IntSec(Head(queue).dur) >= SHORT_FLOOR_S
                    /\ tmp_re'.dur = Sec(Min(IntSec(Head(queue).dur), SHORT_MAX_S)))
           /\ (pc = "shorts" => pc' = "while" \/ queue' = Tail(queue))
           /\ (pc = "shorts_gate" /\ ~audio_ok(tmp_re, AUDIO_MIN_DB) => pc' = "shorts")
           /\ (vtype = "shorts" /\ pc' = "returned" /\ final' # NoFile
                 => /\ pc = "shorts_gate"
                    /\ audio_ok(tmp_re, AUDIO_MIN_DB)
                    /\ final'.dur = tmp_re.dur) ]_vars
C19_Witness ==
    pc = "returned" /\ vtype = "shorts" /\ final.dur = Sec(SHORT_MAX_S)

\* C20: a shorts file of at most SHORT_THRESHOLD_SECONDS seconds is portrait
\* when pick_and_download_for_type returns it and when main uploads it.
C20_TrueShortsPortrait ==
    /\ (pc = "returned" /\ vtype = "shorts" /\ final # NoFile /\ TrueShort(final)
          => final.vert)
    /\ (pc = "upload" /\ vtype = "shorts" /\ TrueShort(upload_path)
          => upload_path.vert)

\* ---------------------------------------------------------------- C21..C25
\* C21: in the acquisition loop a failed download skips its URL and the loop
\* goes on with the next one; at most MAX_DOWNLOAD_CANDIDATES URLs are tried;
\* the pool never holds more than 12 clips, and the loop stops as soon as the
\* pool holds 12, even when URLs remain.
C21_AcquisitionBounded ==
    /\ [](Len(downloaded) <= POOL_CAP /\ i <= MAX_DOWNLOAD_CANDIDATES)
    /\ [](pc = "download" => i < Len(candidates) /\ Len(downloaded) < POOL_CAP)
    /\ [][ pc = "download"
            => /\ i' = i + 1
               /\ pc' \in {"download", "acquired"}
               /\ Len(downloaded') \in {Len(downloaded), Len(downloaded) + 1}
               /\ (Len(downloaded') >= POOL_CAP => pc' = "acquired")
               /\ (i' >= MAX_DOWNLOAD_CANDIDATES => pc' = "acquired")
               /\ (Len(downloaded') < POOL_CAP /\ i' < MAX_DOWNLOAD_CANDIDATES
                     /\ i' < Len(candidates) => pc' = "download") ]_vars
C21_Witness ==
    /\ pc = "acquired" /\ Len(downloaded) = POOL_CAP
    /\ i < MAX_DOWNLOAD_CANDIDATES /\ i < Len(candidates)

\* C22 (under ProbeSpec): when its tool fails, the duration probe returns 0,
\* the audio-stream probe false, the loudness probe None and the long-silence
\* probe true; a file whose probing fails passes neither audio_ok nor the
\* screening by has_long_silence.
C22_ProbesSoftFail ==
    /\ [](pc \in {"probed", "screened"}
            => /\ (tool.duration.exit # 0 => ffprobe_duration_seconds(gate_path) = 0)
               /\ (tool.audio.exit # 0 => ~has_audio_stream(gate_path))
               /\ (tool.loudness.exit # 0 => audio_mean_volume_db(gate_path) = Absent)
               /\ (tool.silence.exit # 0 => has_long_silence(gate_path)))
    /\ [](pc = "screened" /\ (tool.audio.exit # 0 \/ tool.loudness.exit # 0) => ~gate_ok)
    /\ [][ pc = "probe" => pc' = "probed" ]_vars
C22_Witness ==
    /\ pc = "screened" /\ ~gate_ok /\ has_long_silence(gate_path)
    /\ tool.duration.exit # 0 /\ tool.audio.exit # 0
    /\ tool.loudness.exit # 0 /\ tool.silence.exit # 0

\* C23: an assembly step reads only files written in its own attempt: the
\* clips of the pool, the segments, list.txt, tmp_concat.mp4 and the fallback
\* audio; list.txt is removed at the start of the concatenation, so it lists
\* only segments of this attempt, in pool order, whatever earlier attempts
\* and earlier calls from main left behind.
C23_ReadsOwnFiles ==
    /\ [](pc \in {"accum", "collected"}
            => /\ EarlierList \notin outDir
               /\ Listed = list_txt
               /\ IsSubSeq(list_txt, TrimmedOf(Consumed)))
    /\ [](pc \in {"shorts", "shorts_gate", "single", "single_gate", "acceptable",
                  "accum", "collected", "loop"}
            => "clip" \in clipsDir)
    /\ [][ /\ (pc = "acceptable" /\ pc' = "accum"
                 => list_txt' = <<>> /\ outDir' \cap ListFiles = {})
           /\ (pc = "accum" /\ list_txt' # list_txt => {"trim", "list"} \subseteq outDir')
           /\ (pc = "collected" /\ pc' = "concat_gate"
                 => /\ combined'.dur = Sum(list_txt)
                    /\ {"trim", "list", "tmp_concat"} \subseteq outDir')
           /\ (pc = "birds" /\ pc' = "returned" => "birds_tmp" \in outDir')
           /\ (pc = "bg" /\ pc' = "bg_gate" => "bg" \in outDir') ]_vars
C23_Witness ==
    /\ pc = "collected" /\ list_txt # <<>>
    /\ Earlier \in outDir /\ EarlierMain \in outDir
    /\ cycles = TRY_COUNT /\ attempts = 1

\* C24: main runs at most TRY_COUNT cycles, each with at most 6 attempts of
\* pick_and_download_for_type, and ends in one of two ways: it returns after
\* appending one record to the upload log, or it exits with status 1 after
\* TRY_COUNT cycles, with no record appended.
C24_TwoEndings ==
    /\ cycles <= TRY_COUNT
    /\ attempts <= PICK_TRY_COUNT
    /\ upload_log <= 1
    /\ (pc \in {"done", "exit1", "crashed"}
          => \/ pc = "done" /\ upload_log = 1
             \/ pc = "exit1" /\ cycles = TRY_COUNT /\ upload_log = 0)

\* C25: within one run of main at most one transfer is answered with 200 or
\* 201 by the upload service.
C25_AtMostOneAccepted == accepted <= 1
====
